---- MODULE Spec2Model ----
(***************************************************************************)
(* Model of src/streamlit_app.py: the category schema kept in the session  *)
(* state, the text analysis (analyze_pdf_with_cortex), the batched image   *)
(* analysis (analyze_images_with_cortex with its worker                    *)
(* analyze_single_image) and the result store (save_analysis_results).     *)
(*                                                                         *)
(* Text is a sequence of chunks.  A chunk is either one of the characters  *)
(* the code treats specially (quote, backslash, braces, comma, space,      *)
(* hyphen) or a run of ordinary characters.                                *)
(***************************************************************************)
EXTENDS Integers, Sequences, FiniteSets, TLC

(***************************************************************************)
(* Bounds of the model.                                                    *)
(***************************************************************************)
MaxUnits == 3
MaxBatch == 2
MaxCategories == 5

(***************************************************************************)
(* Program constants.                                                      *)
(***************************************************************************)
DescPrefixLen == 200
FullTextLen == 500
TextRowLimit == 5
TextRowPrefixLen == 1000
PromptLimit == 10000

\* the element of a one-element set; "x \in {e}" names the value of e, which
\* is then computed once
Value(S) == CHOOSE x \in S : TRUE

Min(a, b) == IF a < b THEN a ELSE b

\* Python slice s[:n]
Prefix(s, n) == SubSeq(s, 1, Min(Len(s), n))

\* Python slice s[a:b] with 0-based a, exclusive b (both within 0..len)
Slice(s, a, b) == IF b <= a THEN <<>> ELSE SubSeq(s, a + 1, b)

RECURSIVE SeqsUpTo(_, _)
\* the sequences over S of length at most n
SeqsUpTo(S, n) ==
    IF n = 0 THEN { <<>> }
    ELSE LET T == SeqsUpTo(S, n - 1)
         IN  T \cup {Append(t, x) : t \in T, x \in S}

RECURSIVE Join(_)
Join(s) == IF s = <<>> THEN "" ELSE Head(s) \o Join(Tail(s))

\* str.replace(old, new) for a one-chunk old and a chunk-sequence new: the
\* chunk at position i of s lands at position ReplaceStart(s, old, new, i)
ReplaceStart(s, old, new, i) ==
    i + Cardinality({k \in 1..(i - 1) : s[k] = old}) * (Len(new) - 1)

ReplaceIn(s, old, new) ==
    LET n == ReplaceStart(s, old, new, Len(s) + 1) - 1
        src(j) == CHOOSE i \in 1..Len(s) :
                    /\ ReplaceStart(s, old, new, i) <= j
                    /\ j < ReplaceStart(s, old, new, i + 1)
    IN  IF \A k \in 1..Len(s) : s[k] # old THEN s
        ELSE [j \in 1..n |-> IF s[src(j)] = old
                             THEN new[j - ReplaceStart(s, old, new, src(j)) + 1]
                             ELSE s[src(j)]]

Replace(text, old, new) == Value({ReplaceIn(s, old, new) : s \in {text}})

(***************************************************************************)
(* The category schema.                                                    *)
(***************************************************************************)
DEFAULT_CATEGORIES ==
    << [id |-> "for_sale_sign", name |-> <<"For", " ", "Sale", " ", "Sign">>,
        description |-> <<"Is there a ", "'", "For Sale", "'", " sign visible?">>],
       [id |-> "solar_panels", name |-> <<"Solar", " ", "Panels">>,
        description |-> <<"Are there solar panels installed on the property?">>],
       [id |-> "human_presence", name |-> <<"Human", " ", "Presence">>,
        description |-> <<"Are there any people visible?">>],
       [id |-> "potential_damage", name |-> <<"Potential", " ", "Damage">>,
        description |-> <<"Is there any visible damage to the property?">>] >>

\* the elements of s at the positions K, in order
Pick(s, K) ==
    [j \in 1..Cardinality(K) |-> s[CHOOSE i \in K : Cardinality({k \in K : k <= i}) = j]]

\* str.lower on one chunk
Lower(c) ==
    CASE c = "For" -> "for"
      [] c = "Sale" -> "sale"
      [] c = "Sign" -> "sign"
      [] c = "Pool" -> "pool"
      [] OTHER -> c

\* new_cat_name.lower().replace(" ", "_").replace("-", "_")
cat_id(new_cat_name) ==
    Join(Replace(Replace([i \in 1..Len(new_cat_name) |-> Lower(new_cat_name[i])],
                         " ", <<"_">>), "-", <<"_">>))

\* What the user can type into the form
NewNames == { <<>>, <<"Pool">> }
NewDescs == { <<>>, <<"it", "'", "s ", "\\", "a">> }

(***************************************************************************)
(* build_analysis_prompt: the gating clause (it holds an apostrophe), the  *)
(* numbered questions, the JSON template with one key per category id.     *)
(***************************************************************************)
RECURSIVE category_text(_, _)
category_text(categories, idx) ==
    IF idx > Len(categories) THEN <<>>
    ELSE <<ToString(idx) \o ". " \o Join(categories[idx].name) \o ": ">>
            \o categories[idx].description
            \o category_text(categories, idx + 1)

json_structure(categories) ==
    <<"is_property_image">> \o [i \in 1..Len(categories) |-> categories[i].id]

build_analysis_prompt(categories) ==
    <<"IMPORTANT ... it", "'", "s a logo ...">> \o category_text(categories, 1)
        \o <<"Format your response as JSON">> \o json_structure(categories)
        \o <<"If this is a text page ...">>

(***************************************************************************)
(* String literals inside the SQL text handed to session.sql: the engine   *)
(* reads '' as one quote and backslash-c as c; a lone quote ends the       *)
(* literal early and a trailing backslash swallows the closing quote, both *)
(* of which make the statement fail.                                       *)
(***************************************************************************)
SqlSpecial(c) == c = "\\" \/ c = "'"

\* position i opens an escape pair (backslash-c or '') iff the run of special
\* characters that ends at i has odd length
SqlOpens(s, i) ==
    /\ SqlSpecial(s[i])
    /\ LET before == {k \in 1..i : ~ SqlSpecial(s[k])}
           run == i - (IF before = {} THEN 0 ELSE CHOOSE k \in before : \A m \in before : m <= k)
       IN  run % 2 = 1

\* the literal is well formed: every pair is complete, and a quote is only
\* followed by a quote
SqlLiteralOk(s) ==
    \A i \in 1..Len(s) : SqlOpens(s, i) =>
        /\ i < Len(s)
        /\ s[i] = "'" => s[i + 1] = "'"

\* the text the engine reads: the characters that do not open a pair
SqlLiteralText(s) ==
    LET kept == {i \in 1..Len(s) : ~ SqlOpens(s, i)}
        nth(j) == CHOOSE i \in kept : Cardinality({k \in kept : k <= i}) = j
    IN  IF \A i \in 1..Len(s) : ~ SqlSpecial(s[i]) THEN s
        ELSE [j \in 1..Cardinality(kept) |-> s[nth(j)]]

SqlLiteral(s) ==
    IF SqlLiteralOk(s) THEN [ok |-> TRUE, text |-> SqlLiteralText(s)]
    ELSE [ok |-> FALSE, text |-> <<>>]

\* analyze_images_with_cortex: prompt_escaped = analysis_prompt.replace("'", "''")
image_prompt_escaped(categories) ==
    Replace(build_analysis_prompt(categories), "'", <<"'", "'">>)

\* analyze_pdf_with_cortex: the prompt with the content, cut at PromptLimit
text_prompt(categories, combined_text) ==
    LET prompt == build_analysis_prompt(categories)
                    \o <<"Content to analyze:">> \o combined_text
    IN  IF Len(prompt) > PromptLimit
        THEN Prefix(prompt, PromptLimit) \o <<"[Content truncated due to length]">>
        ELSE prompt

\* prompt.replace("'", "''").replace("\\", "\\\\")
text_prompt_escaped(prompt) ==
    Replace(Replace(prompt, "'", <<"'", "'">>), "\\", <<"\\", "\\">>)

(***************************************************************************)
(* The response of the completion capability is a sequence of chunks:      *)
(* "{" "}" "," are the JSON punctuation, a category id followed by a value *)
(* is a member, "s" is a scalar JSON value, "p" is prose, and a value      *)
(* chunk stands for the three fields of one category's answer.             *)
(***************************************************************************)
ValueChunks == {"yes90", "no0", "yes80q", "yes70a", "yes60b"}

\* the answers differ in their description: plain words, words in double
\* quotes, an apostrophe, a backslash
ValueOf(v) ==
    CASE v = "yes90" ->
            [dict |-> TRUE, detected |-> TRUE, confidence |-> 90, description |-> <<"seen">>]
      [] v = "yes80q" ->
            [dict |-> TRUE, detected |-> TRUE, confidence |-> 80,
             description |-> <<"sign says ", "\"", "FOR SALE", "\"">>]
      [] v = "yes70a" ->
            [dict |-> TRUE, detected |-> TRUE, confidence |-> 70,
             description |-> <<"it", "'", "s there">>]
      [] v = "yes60b" ->
            [dict |-> TRUE, detected |-> TRUE, confidence |-> 60,
             description |-> <<"C:", "\\", "n">>]
      [] OTHER ->
            [dict |-> TRUE, detected |-> FALSE, confidence |-> 0, description |-> <<>>]

\* a JSON value that is not an object (true, 3, "text")
Scalar == [dict |-> FALSE, detected |-> FALSE, confidence |-> 0, description |-> <<>>]

KeyChunks == {"is_property_image", "for_sale_sign", "solar_panels",
              "human_presence", "potential_damage", "pool"}

EmptyMap == [k \in {} |-> Scalar]

\* dict item assignment d[k] = v
SetItem(d, k, v) == [x \in DOMAIN d \cup {k} |-> IF x = k THEN v ELSE d[x]]

\* json.loads on the members between the outer braces
RECURSIVE loads_members(_, _)
loads_members(t, acc) ==
    IF Len(t) >= 2 /\ t[1] \in KeyChunks /\ t[2] = "s"
    THEN IF Len(t) = 2 THEN [ok |-> TRUE, obj |-> SetItem(acc, t[1], Scalar)]
         ELSE IF t[3] = "," THEN loads_members(SubSeq(t, 4, Len(t)), SetItem(acc, t[1], Scalar))
         ELSE [ok |-> FALSE, obj |-> EmptyMap]
    ELSE IF Len(t) >= 4 /\ t[1] \in KeyChunks /\ t[2] = "{" /\ t[3] \in ValueChunks /\ t[4] = "}"
    THEN IF Len(t) = 4 THEN [ok |-> TRUE, obj |-> SetItem(acc, t[1], ValueOf(t[3]))]
         ELSE IF t[5] = "," THEN loads_members(SubSeq(t, 6, Len(t)), SetItem(acc, t[1], ValueOf(t[3])))
         ELSE [ok |-> FALSE, obj |-> EmptyMap]
    ELSE [ok |-> FALSE, obj |-> EmptyMap]

\* json.loads(json_str): ok = FALSE stands for the JSONDecodeError
json_loads(json_str) ==
    IF Len(json_str) >= 2 /\ json_str[1] = "{" /\ json_str[Len(json_str)] = "}"
    THEN IF Len(json_str) = 2 THEN [ok |-> TRUE, obj |-> EmptyMap]
         ELSE loads_members(SubSeq(json_str, 2, Len(json_str) - 1), EmptyMap)
    ELSE [ok |-> FALSE, obj |-> EmptyMap]

Positions(s, c) == {i \in 1..Len(s) : s[i] = c}
SetMin(S) == CHOOSE x \in S : \A y \in S : x <= y
SetMax(S) == CHOOSE x \in S : \A y \in S : x >= y

\* the "else" branch: every category with "Could not parse"
RECURSIVE default_no_brace(_, _, _)
default_no_brace(categories, i, acc) ==
    IF i > Len(categories) THEN acc
    ELSE default_no_brace(categories, i + 1,
            SetItem(acc, categories[i].id,
                    [dict |-> TRUE, detected |-> FALSE, confidence |-> 0,
                     description |-> <<"Could not parse">>]))

\* variant: the handler fills in the first category only
RECURSIVE default_on_error_first_only(_, _, _, _)
default_on_error_first_only(categories, response, i, acc) ==
    IF i > Min(Len(categories), 1) THEN acc
    ELSE default_on_error_first_only(categories, response, i + 1,
            SetItem(acc, categories[i].id,
                    [dict |-> TRUE, detected |-> FALSE, confidence |-> 0,
                     description |-> Prefix(response, DescPrefixLen)]))

\* the "except" branch: the first category carries response[:200]
RECURSIVE default_on_error(_, _, _, _)
default_on_error(categories, response, i, acc) ==
    IF i > Len(categories) THEN acc
    ELSE default_on_error(categories, response, i + 1,
            SetItem(acc, categories[i].id,
                    [dict |-> TRUE, detected |-> FALSE, confidence |-> 0,
                     description |-> IF categories[i] = categories[1]
                                     THEN Prefix(response, DescPrefixLen)
                                     ELSE <<>>]))

\* variant: the object is cut at the first closing brace
parse_try_first_close(response, categories) ==
    IF Positions(response, "{") # {}
    THEN IF Positions(response, "}") = {}
         THEN [raised |-> TRUE, obj |-> EmptyMap]
         ELSE LET json_start == SetMin(Positions(response, "{")) - 1
                  json_end == SetMin(Positions(response, "}"))
                  decoded == json_loads(Slice(response, json_start, json_end))
              IN  [raised |-> ~ decoded.ok, obj |-> decoded.obj]
    ELSE [raised |-> FALSE, obj |-> default_no_brace(categories, 1, EmptyMap)]

\* the body of the "try": raised stands for the ValueError of rindex (no
\* closing brace) or the JSONDecodeError of json.loads
parse_try(response, categories) ==
    IF Positions(response, "{") # {}
    THEN IF Positions(response, "}") = {}
         THEN [raised |-> TRUE, obj |-> EmptyMap]
         ELSE LET json_start == SetMin(Positions(response, "{")) - 1
                  json_end == SetMax(Positions(response, "}"))
                  decoded == json_loads(Slice(response, json_start, json_end))
              IN  [raised |-> ~ decoded.ok, obj |-> decoded.obj]
    ELSE [raised |-> FALSE, obj |-> default_no_brace(categories, 1, EmptyMap)]

\* variant: the try body without its except; the exception leaves the block
parse_block_no_except(response, categories) ==
    Value({[raised |-> t.raised, analysis_json |-> t.obj] :
                t \in {parse_try(response, categories)}})

\* the "Parse response" block of analyze_single_image and
\* analyze_pdf_with_cortex: try body and except handler; raised tells whether
\* an exception leaves the block
parse_block(response, categories) ==
    Value({[raised |-> FALSE,
            analysis_json |-> IF t.raised
                              THEN default_on_error(categories, response, 1, EmptyMap)
                              ELSE t.obj] :
                t \in {parse_try(response, categories)}})

\* the mapping the block ends with
parse_response(response, categories) == parse_block(response, categories).analysis_json

(***************************************************************************)
(* save_analysis_results.  The four canonical entries are read with        *)
(* .get(key, {}); a canonical entry that is not an object has no .get and  *)
(* the AttributeError is swallowed by the function's except (no row).      *)
(* The values travel inside the text of the INSERT statement: strings in   *)
(* '...' literals with the quotes doubled, the whole mapping as json.dumps *)
(* text inside PARSE_JSON('...').                                          *)
(***************************************************************************)
EmptyDict == [dict |-> TRUE, detected |-> FALSE, confidence |-> 0, description |-> <<>>]

DictGet(d, k) == IF k \in DOMAIN d THEN d[k] ELSE EmptyDict

CanonicalKeys == {"for_sale_sign", "solar_panels", "human_presence", "potential_damage"}

\* a string column written as '{x.replace("'", "''")}': what the engine reads
stored_text(s) == Value({SqlLiteral(literal) : literal \in {Replace(s, "'", <<"'", "'">>)}})

\* json.dumps on a string: backslash and double quote get a backslash, the
\* text is put in double quotes
json_dumps_str(s) ==
    Value({ <<"\"">> \o Replace(t, "\"", <<"\\", "\"">>) \o <<"\"">> :
                t \in {Replace(s, "\\", <<"\\", "\\">>)} })

\* position i of the JSON text t is a backslash that opens an escape: the run
\* of backslashes ending at i has odd length
JsonOpens(t, i) ==
    /\ t[i] = "\\"
    /\ LET before == {k \in 1..i : t[k] # "\\"}
           run == i - (IF before = {} THEN 0 ELSE CHOOSE k \in before : \A m \in before : m <= k)
       IN  run % 2 = 1

\* the characters JSON allows after a backslash, and what the pair stands for
JsonEscapes == {"\"", "\\", "/", "n", "t"}

JsonUnescape(c) == CASE c = "n" -> "<LF>" [] c = "t" -> "<TAB>" [] OTHER -> c

\* PARSE_JSON on the text of one JSON string
parse_json_str(t) ==
    LET inner == 2..(Len(t) - 1)
        ok == /\ Len(t) >= 2 /\ t[1] = "\"" /\ t[Len(t)] = "\""
              /\ ~ JsonOpens(t, Len(t) - 1)
              /\ \A i \in inner :
                    /\ JsonOpens(t, i) => t[i + 1] \in JsonEscapes
                    /\ t[i] = "\"" => JsonOpens(t, i - 1)
        kept == {i \in inner : ~ JsonOpens(t, i)}
        nth(j) == CHOOSE i \in kept : Cardinality({k \in kept : k <= i}) = j
    IN  IF ok /\ \A i \in inner : t[i] # "\\"
        THEN [ok |-> TRUE, text |-> SubSeq(t, 2, Len(t) - 1)]
        ELSE IF ok
        THEN [ok |-> TRUE,
              text |-> [j \in 1..Cardinality(kept) |->
                          IF JsonOpens(t, nth(j) - 1) THEN JsonUnescape(t[nth(j)])
                          ELSE t[nth(j)]]]
        ELSE [ok |-> FALSE, text |-> <<>>]

\* what PARSE_JSON('{metadata_escaped}') makes of one description: json.dumps,
\* the doubling of the quotes, the engine's reading of the literal, PARSE_JSON
stored_description(s) ==
    Value({ IF SqlLiteralOk(literal)
            THEN Value({parse_json_str(t) : t \in {SqlLiteralText(literal)}})
            ELSE [ok |-> FALSE, text |-> <<>>] :
                literal \in {Replace(dumped, "'", <<"'", "'">>) :
                                dumped \in {json_dumps_str(s)}} })

\* the METADATA column of a row that was written
metadata_column(analysis_json) ==
    [k \in DOMAIN analysis_json |->
        [analysis_json[k] EXCEPT !.description = stored_description(@).text]]

\* the function's "try" raises: .get on a value that is not a dict, or the
\* engine rejects the statement text
save_raises(analysis_json, full_text) ==
    \/ \E k \in CanonicalKeys : ~ DictGet(analysis_json, k).dict
    \/ ~ stored_text(DictGet(analysis_json, "potential_damage").description).ok
    \/ ~ stored_text(Prefix(full_text, FullTextLen)).ok
    \/ \E k \in DOMAIN analysis_json : ~ stored_description(analysis_json[k].description).ok

analysis_row(file_name, image_name, model_name, page_number, analysis_json, full_text) ==
    LET for_sale == DictGet(analysis_json, "for_sale_sign")
        solar == DictGet(analysis_json, "solar_panels")
        human == DictGet(analysis_json, "human_presence")
        damage == DictGet(analysis_json, "potential_damage")
    IN  [FILE_NAME |-> file_name, IMAGE_NAME |-> image_name,
         MODEL_NAME |-> model_name, PAGE_NUMBER |-> page_number,
         FOR_SALE_SIGN_DETECTED |-> for_sale.detected,
         FOR_SALE_SIGN_CONFIDENCE |-> for_sale.confidence,
         SOLAR_PANEL_DETECTED |-> solar.detected,
         SOLAR_PANEL_CONFIDENCE |-> solar.confidence,
         HUMAN_PRESENCE_DETECTED |-> human.detected,
         HUMAN_PRESENCE_CONFIDENCE |-> human.confidence,
         POTENTIAL_DAMAGE_DETECTED |-> damage.detected,
         POTENTIAL_DAMAGE_CONFIDENCE |-> damage.confidence,
         DAMAGE_DESCRIPTION |-> stored_text(damage.description).text,
         FULL_ANALYSIS_TEXT |-> stored_text(Prefix(full_text, FullTextLen)).text,
         METADATA |-> metadata_column(analysis_json)]

\* the value save_analysis_results returns: True unless the except was taken
save_returns(analysis_json, full_text, db_ok) ==
    ~ save_raises(analysis_json, full_text) /\ db_ok

\* variant: a row of the same (file, image, model) is replaced by the new one
save_analysis_results_upsert(table, file_name, image_name, model_name, page_number, analysis_json, full_text, db_ok) ==
    LET row == analysis_row(file_name, image_name, model_name,
                            page_number, analysis_json, full_text)
        same(k) == /\ table[k].FILE_NAME = file_name
                   /\ table[k].IMAGE_NAME = image_name
                   /\ table[k].MODEL_NAME = model_name
    IN  IF ~ save_returns(analysis_json, full_text, db_ok) THEN table
        ELSE IF \E k \in 1..Len(table) : same(k)
        THEN [k \in 1..Len(table) |-> IF same(k) THEN row ELSE table[k]]
        ELSE Append(table, row)

\* variant: the write replaces the table's content instead of appending
save_analysis_results_overwrite(table, file_name, image_name, model_name, page_number, analysis_json, full_text, db_ok) ==
    IF ~ save_returns(analysis_json, full_text, db_ok) THEN table
    ELSE << analysis_row(file_name, image_name, model_name,
                         page_number, analysis_json, full_text) >>

\* the table after save_analysis_results; db_ok = FALSE is a failing INSERT
save_analysis_results(table, file_name, image_name, model_name, page_number, analysis_json, full_text, db_ok) ==
    IF ~ save_returns(analysis_json, full_text, db_ok) THEN table
    ELSE Append(table, analysis_row(file_name, image_name, model_name,
                                    page_number, analysis_json, full_text))

(***************************************************************************)
(* Inputs of a run.                                                        *)
(***************************************************************************)
uploaded_file_name == "report.pdf"
selected_model == "claude-3-5-sonnet"

\* the names extract_images_from_pdf_bytes returned
ImageName(i) == "img" \o ToString(i)

\* what the completion capability can answer with
Responses ==
    { <<>>,
      <<"p">>,
      <<"p", "{", "p", "}">>,
      <<"{", "}">>,
      <<"{", "for_sale_sign", "s", "}">>,
      <<"p", "{", "for_sale_sign", "{", "yes90", "}", ",", "solar_panels", "{", "no0", "}", ",",
        "human_presence", "{", "no0", "}", ",", "potential_damage", "{", "yes90", "}", "}">> }

\* the answers drawn for the image calls of a batch run
ImageResponses ==
    { <<"p">>,
      <<"{", "}">>,
      <<"p", "{", "for_sale_sign", "{", "yes90", "}", ",", "solar_panels", "{", "no0", "}", ",",
        "human_presence", "{", "no0", "}", ",", "potential_damage", "{", "yes90", "}", "}">> }

\* the rows of the text table read by analyze_pdf_with_cortex
TextRows == { <<>>, << <<"page one">> >>, << <<"it", "'", "s">>, <<"a", "\\", "b">> >> }

(***************************************************************************)
(* State.                                                                  *)
(***************************************************************************)
VARIABLES
    analysis_categories, \* st.session_state['analysis_categories']
    analysis_table,      \* rows of IMAGE_ANALYSIS_RESULTS, in insertion order
    pc,                  \* position of the script thread
    image_files,         \* argument of analyze_images_with_cortex
    batch_size,          \* argument of analyze_images_with_cortex
    batch_start,         \* loop variable of the batch loop
    unit,                \* per image: the state of its analyze_single_image call
    batch_results,       \* list(executor.map(...)) of the current batch
    all_results,         \* the list analyze_images_with_cortex returns
    completed,           \* the progress tally
    progress,            \* values handed to progress_bar.progress, as (completed, total)
    warnings,            \* image indices reported with st.warning
    groups,              \* number of ThreadPoolExecutor groups issued so far
    prompt_escaped,      \* the escaped prompt built before the batch loop
    txt,                 \* state of analyze_pdf_with_cortex
    pdf_bytes,           \* st.session_state['pdf_bytes']: the uploaded document
    text_table,          \* rows of the extracted-text table, in insertion order
    text_extraction,     \* what the "Extract Text" handler obtained and showed
    image_extraction,    \* state of extract_images_from_pdf_bytes
    session_images       \* st.session_state['extracted_images']

vars == <<analysis_categories, analysis_table, pc, image_files, batch_size,
          batch_start, unit, batch_results, all_results, completed, progress,
          warnings, groups, prompt_escaped, txt, pdf_bytes, text_table,
          text_extraction, image_extraction, session_images>>

docVars == <<pdf_bytes, text_table, text_extraction, image_extraction, session_images>>

imgVars == <<image_files, batch_size, batch_start, unit, batch_results,
             all_results, completed, progress, warnings, groups, prompt_escaped>>

total_images == Len(image_files)

\* st: position of the call; group: the executor group that submitted it;
\* attempts: completion statements issued; outcome: what the capability did;
\* error: the fourth field of the returned tuple; saved: the value
\* save_analysis_results returned
NewUnit == [st |-> "new", group |-> 0, attempts |-> 0, outcome |-> "none",
            response |-> <<>>, analysis_json |-> EmptyMap, error |-> FALSE,
            saved |-> FALSE]

\* answered: a completion call returned; returned: what the function returned
NoText == [prompt |-> <<>>, calls |-> <<>>, answered |-> FALSE, response |-> <<>>,
           returned |-> "nothing", analysis_json |-> EmptyMap]

\* no file has been uploaded
NoDoc == [uploaded |-> FALSE, readable |-> FALSE, pages |-> <<>>]

NoTextExtraction == [called |-> FALSE, db_ok |-> FALSE, text |-> <<>>, shown |-> "nothing"]

\* image_counter: the counter of line 223; extracted_images: the list being
\* built; image_filenames: the page number and counter that line 273 put
\* into image_filename for each listed image; reported: the st.warning calls,
\* with the counter and page of the image; result: what the function returned
NoImageExtraction ==
    [image_counter |-> 0, extracted_images |-> <<>>, image_filenames |-> <<>>,
     reported |-> <<>>, result |-> [returned |-> FALSE, raised |-> FALSE, value |-> <<>>]]

Init ==
    /\ analysis_categories = DEFAULT_CATEGORIES
    /\ analysis_table = <<>>
    /\ pc = "idle"
    /\ image_files = <<>>
    /\ batch_size = 1
    /\ batch_start = 0
    /\ unit = <<>>
    /\ batch_results = <<>>
    /\ all_results = <<>>
    /\ completed = 0
    /\ progress = <<>>
    /\ warnings = <<>>
    /\ groups = 0
    /\ prompt_escaped = <<>>
    /\ txt = NoText
    /\ pdf_bytes = NoDoc
    /\ text_table = <<>>
    /\ text_extraction = NoTextExtraction
    /\ image_extraction = NoImageExtraction
    /\ session_images = <<>>

(***************************************************************************)
(* The sidebar form: "Add Category" and "Reset to Defaults".               *)
(***************************************************************************)
\* variant: an entry with the id of the new one is replaced by it
AddCategoryOverwrites(limit, new_cat_name, new_cat_desc) ==
    /\ pc = "idle"
    /\ Len(analysis_categories) < limit
    /\ new_cat_name # <<>> /\ new_cat_desc # <<>>
    /\ LET new_category == [id |-> cat_id(new_cat_name), name |-> new_cat_name,
                            description |-> new_cat_desc]
           kept == {k \in 1..Len(analysis_categories) :
                        analysis_categories[k].id # new_category.id}
       IN  analysis_categories' = Append(Pick(analysis_categories, kept), new_category)
    /\ UNCHANGED <<analysis_table, pc, imgVars, txt, docVars>>

\* "Add Category" (lines 682-693) on a schema of fewer than limit entries:
\* with both fields filled in, the new entry is appended
AddCategoryWithin(limit, new_cat_name, new_cat_desc) ==
    /\ pc = "idle"
    /\ Len(analysis_categories) < limit
    /\ new_cat_name # <<>> /\ new_cat_desc # <<>>
    /\ analysis_categories' = Append(analysis_categories,
            [id |-> cat_id(new_cat_name), name |-> new_cat_name,
             description |-> new_cat_desc])
    /\ UNCHANGED <<analysis_table, pc, imgVars, txt, docVars>>

AddCategory(new_cat_name, new_cat_desc) ==
    AddCategoryWithin(MaxCategories, new_cat_name, new_cat_desc)

ResetCategories ==
    /\ pc = "idle"
    /\ analysis_categories # DEFAULT_CATEGORIES
    /\ analysis_categories' = DEFAULT_CATEGORIES
    /\ UNCHANGED <<analysis_table, pc, imgVars, txt, docVars>>

(***************************************************************************)
(* analyze_images_with_cortex: the script thread.                          *)
(***************************************************************************)
\* variant: the slice is one element too long
batch_end_off_by_one == Min(batch_start + batch_size + 1, total_images)

\* batch_end = min(batch_start + batch_size, total_images)
batch_end == Min(batch_start + batch_size, total_images)

\* image_data[batch_start:batch_end], as 1-based image indices
batch == (batch_start + 1) .. batch_end

\* the "Analyze Images (Batch)" button with the slider's batch size
\* the call of analyze_images_with_cortex on a list of image names, up to
\* the batch loop (lines 487-551)
AnalyzeImageFiles(files, b) ==
    /\ pc = "idle"
    /\ image_files' = files
    /\ batch_size' = b
    /\ batch_start' = 0
    /\ unit' = [i \in 1..Len(files) |-> NewUnit]
    /\ batch_results' = <<>>
    /\ all_results' = <<>>
    /\ completed' = 0
    /\ progress' = <<>>
    /\ warnings' = <<>>
    /\ groups' = 0
    /\ prompt_escaped' = image_prompt_escaped(analysis_categories)
    /\ pc' = "loop"
    /\ UNCHANGED <<analysis_categories, analysis_table, txt, docVars>>

AnalyzeImages(n, b) == AnalyzeImageFiles([i \in 1..n |-> ImageName(i)], b)

\* one iteration of "for batch_start in range(0, total_images, batch_size)":
\* the executor is created and executor.map submits the whole batch
StartBatch ==
    /\ pc = "loop"
    /\ batch_start < total_images
    /\ unit' = [i \in 1..total_images |->
                    IF i \in batch
                    THEN [unit[i] EXCEPT !.st = "submitted", !.group = groups + 1]
                    ELSE unit[i]]
    /\ groups' = groups + 1
    /\ pc' = "pool"
    /\ UNCHANGED <<analysis_categories, analysis_table, image_files, batch_size,
                   batch_start, batch_results, all_results, completed, progress,
                   warnings, prompt_escaped, txt, docVars>>

\* variant: the group is left as soon as one call has finished
BatchResolvedAny == \E i \in batch : unit[i].st = "done"

\* leaving the "with ThreadPoolExecutor" block waits for every submitted call
BatchResolved == \A i \in batch : unit[i].st = "done"

\* variant: the results of a group come in the reverse of the input order
JoinBatchReversed ==
    /\ pc = "pool"
    /\ BatchResolved
    /\ batch_results' = [k \in 1..(batch_end - batch_start) |->
            LET i == batch_end + 1 - k
            IN  [img_idx |-> i, image_name |-> image_files[i],
                 analysis_json |-> unit[i].analysis_json, error |-> unit[i].error]]
    /\ pc' = "collect"
    /\ UNCHANGED <<analysis_categories, analysis_table, image_files, batch_size,
                   batch_start, unit, all_results, completed, progress, warnings,
                   groups, prompt_escaped, txt, docVars>>

\* list(executor.map(...)): the results of the group in the order of the
\* inputs, whatever order the calls finished in
JoinBatch ==
    /\ pc = "pool"
    /\ BatchResolved
    /\ batch_results' = [k \in 1..(batch_end - batch_start) |->
            LET i == batch_start + k
            IN  [img_idx |-> i, image_name |-> image_files[i],
                 analysis_json |-> unit[i].analysis_json, error |-> unit[i].error]]
    /\ pc' = "collect"
    /\ UNCHANGED <<analysis_categories, analysis_table, image_files, batch_size,
                   batch_start, unit, all_results, completed, progress, warnings,
                   groups, prompt_escaped, txt, docVars>>

\* variant: the tally is advanced for successes only
CollectResultSuccessTally ==
    /\ pc = "collect"
    /\ batch_results # <<>>
    /\ LET r == Head(batch_results)
       IN  IF r.error
           THEN /\ warnings' = Append(warnings, r.img_idx)
                /\ UNCHANGED <<all_results, completed>>
           ELSE /\ all_results' = Append(all_results,
                        [img_idx |-> r.img_idx, image_name |-> r.image_name,
                         analysis_json |-> r.analysis_json])
                /\ completed' = completed + 1
                /\ UNCHANGED warnings
    /\ progress' = Append(progress, <<completed', total_images>>)
    /\ batch_results' = Tail(batch_results)
    /\ UNCHANGED <<analysis_categories, analysis_table, pc, image_files, batch_size,
                   batch_start, unit, groups, prompt_escaped, txt, docVars>>

\* variant: the progress bar is updated before the tally is advanced
CollectResultStaleProgress ==
    /\ pc = "collect"
    /\ batch_results # <<>>
    /\ LET r == Head(batch_results)
       IN  IF r.error
           THEN /\ warnings' = Append(warnings, r.img_idx)
                /\ UNCHANGED all_results
           ELSE /\ all_results' = Append(all_results,
                        [img_idx |-> r.img_idx, image_name |-> r.image_name,
                         analysis_json |-> r.analysis_json])
                /\ UNCHANGED warnings
    /\ progress' = Append(progress, <<completed, total_images>>)
    /\ completed' = completed + 1
    /\ batch_results' = Tail(batch_results)
    /\ UNCHANGED <<analysis_categories, analysis_table, pc, image_files, batch_size,
                   batch_start, unit, groups, prompt_escaped, txt, docVars>>

\* one iteration of "for img_idx, image_name, analysis_json, error in batch_results"
CollectResult ==
    /\ pc = "collect"
    /\ batch_results # <<>>
    /\ LET r == Head(batch_results)
       IN  IF r.error
           THEN /\ warnings' = Append(warnings, r.img_idx)
                /\ UNCHANGED all_results
           ELSE /\ all_results' = Append(all_results,
                        [img_idx |-> r.img_idx, image_name |-> r.image_name,
                         analysis_json |-> r.analysis_json])
                /\ UNCHANGED warnings
    /\ completed' = completed + 1
    /\ progress' = Append(progress, <<completed + 1, total_images>>)
    /\ batch_results' = Tail(batch_results)
    /\ UNCHANGED <<analysis_categories, analysis_table, pc, image_files, batch_size,
                   batch_start, unit, groups, prompt_escaped, txt, docVars>>

\* the batch is collected: the range() loop advances
NextBatch ==
    /\ pc = "collect"
    /\ batch_results = <<>>
    /\ batch_start' = batch_start + batch_size
    /\ pc' = "loop"
    /\ UNCHANGED <<analysis_categories, analysis_table, image_files, batch_size,
                   unit, batch_results, all_results, completed, progress, warnings,
                   groups, prompt_escaped, txt, docVars>>

\* the loop is exhausted: "return all_results"
ReturnResults ==
    /\ pc = "loop"
    /\ batch_start >= total_images
    /\ pc' = "done"
    /\ UNCHANGED <<analysis_categories, analysis_table, imgVars, txt, docVars>>

(***************************************************************************)
(* analyze_single_image: one call per submitted image, run by a worker of  *)
(* the pool (max_workers = batch_size).                                    *)
(***************************************************************************)
Busy == {i \in 1..total_images : unit[i].st \in {"calling", "responded"}}

\* variant: the pool is created one worker short
WorkerFreeOneShort == Cardinality(Busy) < batch_size - 1

\* a pool thread is available to take the next submitted item
WorkerFree == Cardinality(Busy) < batch_size

\* the statement text reaches the engine only if its prompt literal is well formed
ImageStatementOk == SqlLiteralOk(prompt_escaped)

\* session.sql(... COMPLETE(model, prompt, TO_FILE(...))).collect() is issued
StartCall(i) ==
    /\ pc = "pool"
    /\ i \in 1..total_images
    /\ unit[i].st = "submitted"
    /\ WorkerFree
    /\ unit' = [unit EXCEPT ![i].st = "calling", ![i].attempts = @ + 1]
    /\ UNCHANGED <<analysis_categories, analysis_table, pc, image_files, batch_size,
                   batch_start, batch_results, all_results, completed, progress,
                   warnings, groups, prompt_escaped, txt, docVars>>

\* variant: the worker does not catch; the exception leaves executor.map and
\* the outer except of analyze_images_with_cortex returns []
CallRaisesAborts(i) ==
    /\ pc = "pool"
    /\ i \in 1..total_images
    /\ unit[i].st = "calling"
    /\ unit' = [unit EXCEPT ![i].st = "done", ![i].outcome = "raised",
                            ![i].error = TRUE]
    /\ all_results' = <<>>
    /\ pc' = "done"
    /\ UNCHANGED <<analysis_categories, analysis_table, image_files, batch_size,
                   batch_start, batch_results, completed, progress, warnings,
                   groups, prompt_escaped, txt, docVars>>

\* the call raises: the except of analyze_single_image returns the error tuple
CallRaises(i) ==
    /\ pc = "pool"
    /\ i \in 1..total_images
    /\ unit[i].st = "calling"
    /\ unit' = [unit EXCEPT ![i].st = "done", ![i].outcome = "raised",
                            ![i].error = TRUE]
    /\ UNCHANGED <<analysis_categories, analysis_table, pc, image_files, batch_size,
                   batch_start, batch_results, all_results, completed, progress,
                   warnings, groups, prompt_escaped, txt, docVars>>

\* the call returns (an empty result set gives response ""); the response is
\* parsed; an exception leaving the parse block reaches the outer except of
\* analyze_single_image, which returns the error tuple
CallReturns(i, response) ==
    /\ pc = "pool"
    /\ i \in 1..total_images
    /\ unit[i].st = "calling"
    /\ ImageStatementOk
    /\ \E parsed \in {parse_block(response, analysis_categories)} :
           unit' = [unit EXCEPT ![i].st = IF parsed.raised THEN "done" ELSE "responded",
                                ![i].outcome = "returned",
                                ![i].response = response,
                                ![i].analysis_json = parsed.analysis_json,
                                ![i].error = parsed.raised]
    /\ UNCHANGED <<analysis_categories, analysis_table, pc, image_files, batch_size,
                   batch_start, batch_results, all_results, completed, progress,
                   warnings, groups, prompt_escaped, txt, docVars>>

\* variant: a failed write turns the unit into a failure
SaveResultStrict(i, db_ok) ==
    /\ pc = "pool"
    /\ i \in 1..total_images
    /\ unit[i].st = "responded"
    /\ analysis_table' = save_analysis_results(analysis_table, uploaded_file_name,
            image_files[i], selected_model, i, unit[i].analysis_json,
            unit[i].response, db_ok)
    /\ unit' = [unit EXCEPT ![i].st = "done",
                            ![i].saved = save_returns(unit[i].analysis_json, unit[i].response, db_ok),
                            ![i].error = ~ save_returns(unit[i].analysis_json, unit[i].response, db_ok)]
    /\ UNCHANGED <<analysis_categories, pc, image_files, batch_size, batch_start,
                   batch_results, all_results, completed, progress, warnings,
                   groups, prompt_escaped, txt, docVars>>

\* save_analysis_results(file_name, image_name, model_name, img_idx, ...) and
\* "return (img_idx, image_name, analysis_json, None)"
SaveResult(i, db_ok) ==
    /\ pc = "pool"
    /\ i \in 1..total_images
    /\ unit[i].st = "responded"
    /\ analysis_table' = save_analysis_results(analysis_table, uploaded_file_name,
            image_files[i], selected_model, i, unit[i].analysis_json,
            unit[i].response, db_ok)
    /\ unit' = [unit EXCEPT ![i].st = "done",
                            ![i].saved = save_returns(unit[i].analysis_json, unit[i].response, db_ok)]
    /\ UNCHANGED <<analysis_categories, pc, image_files, batch_size, batch_start,
                   batch_results, all_results, completed, progress, warnings,
                   groups, prompt_escaped, txt, docVars>>

(***************************************************************************)
(* analyze_pdf_with_cortex: the text unit of the uploaded document.        *)
(***************************************************************************)
RECURSIVE JoinRows(_)
\* " ".join([row['EXTRACTED_TEXT'][:1000] for row in text_result])
JoinRows(rows) ==
    IF rows = <<>> THEN <<>>
    ELSE IF Len(rows) = 1 THEN Prefix(rows[1], TextRowPrefixLen)
    ELSE Prefix(rows[1], TextRowPrefixLen) \o <<" ">> \o JoinRows(Tail(rows))

\* the "Analyze Text Content" button; rows is what the text table holds for the file
AnalyzeText(rows) ==
    /\ pc = "idle"
    /\ LET text_result == Prefix(rows, TextRowLimit)
       IN  IF text_result = <<>>
           THEN /\ txt' = [NoText EXCEPT !.returned = "None"]
                /\ pc' = "t_done"
           ELSE /\ txt' = [NoText EXCEPT !.prompt =
                                text_prompt(analysis_categories, JoinRows(text_result))]
                /\ pc' = "t_primary"
    /\ UNCHANGED <<analysis_categories, analysis_table, imgVars, docVars>>

\* primary path: call_function("SNOWFLAKE.CORTEX.COMPLETE", lit(model), lit(prompt))
TextPrimaryReturns(response) ==
    /\ pc = "t_primary"
    /\ txt' = [txt EXCEPT !.calls = Append(@, [path |-> "primary", prompt |-> txt.prompt]),
                          !.answered = TRUE, !.response = response]
    /\ pc' = "t_parse"
    /\ UNCHANGED <<analysis_categories, analysis_table, imgVars, docVars>>

TextPrimaryRaises ==
    /\ pc = "t_primary"
    /\ txt' = [txt EXCEPT !.calls = Append(@, [path |-> "primary", prompt |-> txt.prompt])]
    /\ pc' = "t_fallback"
    /\ UNCHANGED <<analysis_categories, analysis_table, imgVars, docVars>>

\* the prompt the engine reads out of the fallback statement's literal
FallbackLiteral == SqlLiteral(text_prompt_escaped(txt.prompt))

\* fallback path: session.sql("SELECT SNOWFLAKE.CORTEX.COMPLETE('model', 'prompt')")
TextFallbackReturns(response) ==
    /\ pc = "t_fallback"
    /\ FallbackLiteral.ok
    /\ txt' = [txt EXCEPT !.calls = Append(@, [path |-> "fallback",
                                               prompt |-> FallbackLiteral.text]),
                          !.answered = TRUE, !.response = response]
    /\ pc' = "t_parse"
    /\ UNCHANGED <<analysis_categories, analysis_table, imgVars, docVars>>

\* "Both Cortex approaches failed": return None
TextFallbackRaises ==
    /\ pc = "t_fallback"
    /\ txt' = [txt EXCEPT !.calls = Append(@, [path |-> "fallback",
                                               prompt |-> FallbackLiteral.text]),
                          !.returned = "None"]
    /\ pc' = "t_done"
    /\ UNCHANGED <<analysis_categories, analysis_table, imgVars, docVars>>

\* parse, save_analysis_results(file_name, file_name, model_name, 1, ...), return;
\* an exception leaving the parse block reaches the outer except: return None
TextParseSave(db_ok) ==
    /\ pc = "t_parse"
    /\ LET parsed == parse_block(txt.response, analysis_categories)
           analysis_json == parsed.analysis_json
       IN  IF parsed.raised
           THEN /\ txt' = [txt EXCEPT !.returned = "None"]
                /\ UNCHANGED analysis_table
           ELSE /\ analysis_table' = save_analysis_results(analysis_table,
                        uploaded_file_name, uploaded_file_name, selected_model, 1,
                        analysis_json, txt.response, db_ok)
                /\ txt' = [txt EXCEPT !.analysis_json = analysis_json, !.returned = "json"]
    /\ pc' = "t_done"
    /\ UNCHANGED <<analysis_categories, imgVars, docVars>>

(***************************************************************************)
(* The uploaded document.  A readable document is a sequence of pages,     *)
(* each with its extractable text and a number of embedded image objects;  *)
(* an unreadable one makes PyPDF2.PdfReader raise.                         *)
(***************************************************************************)
MaxPages == 2
MaxImages == 2

\* page texts: none, plain words, text that holds the page marker of the
\* extraction itself, an apostrophe, a trailing backslash
PageTexts ==
    { <<>>,
      <<"hello">>,
      <<"see", "\n", "--- Page", " ", "7", " ---", "\n", "appendix">>,
      <<"it", "'", "s">>,
      <<"dir", "\\">> }

TextPages == [text : PageTexts, images : {0}]
ImagePages == [text : {<<"hello">>}, images : 0..MaxImages]

Docs ==
    {[uploaded |-> TRUE, readable |-> TRUE, pages |-> ps] :
        ps \in SeqsUpTo(TextPages, MaxPages) \cup SeqsUpTo(ImagePages, MaxPages)}
    \cup {[uploaded |-> TRUE, readable |-> FALSE, pages |-> <<>>]}

\* the file uploader: st.session_state['pdf_bytes'] = uploaded_file.getvalue()
UploadFile(doc) ==
    /\ pc = "idle"
    /\ ~ pdf_bytes.uploaded
    /\ pdf_bytes' = doc
    /\ UNCHANGED <<analysis_categories, analysis_table, pc, imgVars, txt, text_table,
                   text_extraction, image_extraction, session_images>>

(***************************************************************************)
(* extract_text_from_pdf_bytes and save_text_to_table.                     *)
(***************************************************************************)
Whitespace == {" ", "\n"}

\* str.strip()
strip(s) ==
    LET keep == {i \in 1..Len(s) : s[i] \notin Whitespace}
    IN  IF keep = {} THEN <<>> ELSE SubSeq(s, SetMin(keep), SetMax(keep))

\* the loop over reader.pages: marker line, page text, blank line
RECURSIVE pages_text(_, _)
pages_text(pages, page_num) ==
    IF page_num >= Len(pages) THEN <<>>
    ELSE <<"--- Page", " ", ToString(page_num + 1), " ---", "\n">>
            \o pages[page_num + 1].text \o <<"\n", "\n">>
            \o pages_text(pages, page_num + 1)

\* the returned string; the except turns every exception into "Error: ..."
extract_text_from_pdf_bytes(doc) ==
    IF ~ doc.readable THEN <<"Error", ": ", "cannot read">>
    ELSE LET text == pages_text(doc.pages, 0)
         IN  IF strip(text) # <<>> THEN text
             ELSE <<"No text could be extracted from PDF">>

\* str.split(sep) for a one-chunk sep
split(s, sep) ==
    LET at == Positions(s, sep)
        n == Cardinality(at)
        nth(j) == CHOOSE i \in at : Cardinality({k \in at : k <= i}) = j
    IN  [k \in 1..(n + 1) |->
            SubSeq(s, IF k = 1 THEN 1 ELSE nth(k - 1) + 1,
                      IF k = n + 1 THEN Len(s) ELSE nth(k) - 1)]

\* int(text): ok = FALSE stands for the ValueError
int(text) ==
    IF \E n \in 0..99 : ToString(n) = Join(text)
    THEN [ok |-> TRUE, value |-> CHOOSE n \in 0..99 : ToString(n) = Join(text)]
    ELSE [ok |-> FALSE, value |-> 0]

\* one piece of text.split('--- Page'): the (page_num, page_text) it gives, or
\* ok = FALSE when it is skipped (no line break, or a header that is no number)
text_row(page_content) ==
    LET breaks == Positions(page_content, "\n")
        first == SetMin(breaks)
        page_num == int(Replace(strip(SubSeq(page_content, 1, first - 1)), " ---", <<>>))
    IN  IF breaks = {} \/ ~ page_num.ok
        THEN [ok |-> FALSE, page_num |-> 0, page_text |-> <<>>]
        ELSE [ok |-> TRUE, page_num |-> page_num.value,
              page_text |-> strip(SubSeq(page_content, first + 1, Len(page_content)))]

\* rows_to_insert of save_text_to_table, or the single row of a text without marker
rows_to_insert(text) ==
    IF Positions(text, "--- Page") # {}
    THEN LET pages == Tail(split(text, "--- Page"))
             parsed == [k \in 1..Len(pages) |-> text_row(pages[k])]
         IN  Pick(parsed, {k \in 1..Len(parsed) : parsed[k].ok})
    ELSE << [ok |-> TRUE, page_num |-> 1, page_text |-> text] >>

\* variant: every statement is issued even after one of them has failed
save_text_to_table_no_stop(table, file_name, text, db_ok) ==
    LET rows == rows_to_insert(text)
        fails(k) == ~ db_ok \/ ~ stored_text(rows[k].page_text).ok
        written == {k \in 1..Len(rows) : ~ fails(k)}
    IN  [ok |-> \A k \in 1..Len(rows) : ~ fails(k),
         table |-> table \o Pick([k \in 1..Len(rows) |->
                        [FILE_NAME |-> file_name, PAGE_NUMBER |-> rows[k].page_num,
                         EXTRACTED_TEXT |-> stored_text(rows[k].page_text).text]], written)]

\* save_text_to_table: one INSERT per row, the text in a '...' literal with the
\* quotes doubled; the first statement that fails ends the function (False)
save_text_to_table(table, file_name, text, db_ok) ==
    LET rows == rows_to_insert(text)
        fails(k) == ~ db_ok \/ ~ stored_text(rows[k].page_text).ok
        failing == {k \in 1..Len(rows) : fails(k)}
        written == IF failing = {} THEN 1..Len(rows) ELSE 1..(SetMin(failing) - 1)
    IN  [ok |-> failing = {},
         table |-> table \o Pick([k \in 1..Len(rows) |->
                        [FILE_NAME |-> file_name, PAGE_NUMBER |-> rows[k].page_num,
                         EXTRACTED_TEXT |-> stored_text(rows[k].page_text).text]], written)]

\* the "Extract Text" button: extract, then save unless the text starts with "Error"
ExtractText(db_ok) ==
    /\ pc = "idle"
    /\ pdf_bytes.uploaded
    /\ LET text == extract_text_from_pdf_bytes(pdf_bytes)
           saved == save_text_to_table(text_table, uploaded_file_name, text, db_ok)
       IN  IF text # <<>> /\ Head(text) # "Error"
           THEN /\ text_table' = saved.table
                /\ text_extraction' = [called |-> TRUE, db_ok |-> db_ok, text |-> text,
                        shown |-> IF saved.ok THEN "Text extracted and saved"
                                  ELSE "Error saving text"]
           ELSE /\ text_table' = text_table
                /\ text_extraction' = [called |-> TRUE, db_ok |-> db_ok, text |-> text,
                        shown |-> "Failed to extract text"]
    /\ pc' = "e_done"
    /\ UNCHANGED <<analysis_categories, analysis_table, imgVars, txt, pdf_bytes,
                   image_extraction, session_images>>

(***************************************************************************)
(* extract_images_from_pdf_bytes: the loop over the pages and over the     *)
(* image objects of each page.                                             *)
(***************************************************************************)
\* the page number of every image object, in the order the loops visit them
RECURSIVE image_pages(_, _)
image_pages(pages, page_num) ==
    IF page_num > Len(pages) THEN <<>>
    ELSE [k \in 1..pages[page_num].images |-> page_num]
            \o image_pages(pages, page_num + 1)

\* the name of the n-th temporary file; put_result[0].target ends in this
\* name, and this name is what the function lists
TmpName(n) == "tmp" \o ToString(n) \o ".png"

\* lines 272-273: the name built from the document, the page and the counter;
\* base_name is file_name without ".pdf", and no later line reads the result
image_filename(page_num, image_counter) ==
    "report" \o "_page" \o ToString(page_num) \o "_img" \o ToString(image_counter) \o ".png"

\* what happens to one image object: it is uploaded and listed; the upload
\* cannot be confirmed (empty PUT result); decoding or storing it raises
ImageOutcomes == {"uploaded", "unconfirmed", "raises"}

\* the "Extract Images" button on a document PdfReader cannot read: the outer
\* except returns [], the handler shows the no-images warning
ExtractImagesUnreadable ==
    /\ pc = "idle"
    /\ pdf_bytes.uploaded
    /\ ~ pdf_bytes.readable
    /\ image_extraction' = [NoImageExtraction EXCEPT
            !.result = [returned |-> TRUE, raised |-> FALSE, value |-> <<>>]]
    /\ pc' = "e_done"
    /\ UNCHANGED <<analysis_categories, analysis_table, imgVars, txt, pdf_bytes,
                   text_table, text_extraction, session_images>>

\* the "Extract Images" button on a readable document: lines 221-223
ExtractImagesStart ==
    /\ pc = "idle"
    /\ pdf_bytes.uploaded
    /\ pdf_bytes.readable
    /\ image_extraction' = NoImageExtraction
    /\ pc' = "x_loop"
    /\ UNCHANGED <<analysis_categories, analysis_table, imgVars, txt, pdf_bytes,
                   text_table, text_extraction, session_images>>

\* variant: no try around one image; the exception reaches the outer except
ExtractImageAborts(outcome) ==
    /\ pc = "x_loop"
    /\ image_extraction.image_counter < Len(image_pages(pdf_bytes.pages, 1))
    /\ LET image_counter == image_extraction.image_counter + 1
           page_num == image_pages(pdf_bytes.pages, 1)[image_counter]
       IN  IF outcome = "raises"
           THEN /\ image_extraction' = [image_extraction EXCEPT
                        !.image_counter = image_counter,
                        !.result = [returned |-> TRUE, raised |-> FALSE, value |-> <<>>]]
                /\ pc' = "e_done"
           ELSE /\ image_extraction' = [image_extraction EXCEPT
                        !.image_counter = image_counter,
                        !.extracted_images = IF outcome = "uploaded"
                            THEN Append(@, TmpName(image_counter)) ELSE @,
                        !.image_filenames = IF outcome = "uploaded"
                            THEN Append(@, [page_num |-> page_num, image_counter |-> image_counter])
                            ELSE @,
                        !.reported = IF outcome = "uploaded" THEN @
                            ELSE Append(@, [image_counter |-> image_counter, page_num |-> page_num,
                                    message |-> IF outcome = "raises"
                                                THEN "Could not extract image"
                                                ELSE "Could not confirm upload"])]
                /\ pc' = pc
    /\ UNCHANGED <<analysis_categories, analysis_table, imgVars, txt, pdf_bytes,
                   text_table, text_extraction, session_images>>

\* one image object (lines 239-298): the counter goes up, then the image is
\* decoded, written to a temporary file and uploaded; a failure is reported
\* by the inner except and the loop goes on
ExtractImage(outcome) ==
    /\ pc = "x_loop"
    /\ image_extraction.image_counter < Len(image_pages(pdf_bytes.pages, 1))
    /\ LET image_counter == image_extraction.image_counter + 1
           page_num == image_pages(pdf_bytes.pages, 1)[image_counter]
       IN  image_extraction' = [image_extraction EXCEPT
                !.image_counter = image_counter,
                !.extracted_images = IF outcome = "uploaded"
                    THEN Append(@, TmpName(image_counter)) ELSE @,
                !.image_filenames = IF outcome = "uploaded"
                    THEN Append(@, [page_num |-> page_num, image_counter |-> image_counter])
                    ELSE @,
                !.reported = IF outcome = "uploaded" THEN @
                    ELSE Append(@, [image_counter |-> image_counter, page_num |-> page_num,
                                    message |-> IF outcome = "raises"
                                                THEN "Could not extract image"
                                                ELSE "Could not confirm upload"])]
    /\ UNCHANGED <<analysis_categories, analysis_table, pc, imgVars, txt, pdf_bytes,
                   text_table, text_extraction, session_images>>

\* the loops are done: "return extracted_images"; the handler keeps a list
\* that is not empty in the session state
ExtractImagesReturn ==
    /\ pc = "x_loop"
    /\ image_extraction.image_counter = Len(image_pages(pdf_bytes.pages, 1))
    /\ image_extraction' = [image_extraction EXCEPT
            !.result = [returned |-> TRUE, raised |-> FALSE,
                        value |-> image_extraction.extracted_images]]
    /\ session_images' = IF image_extraction.extracted_images # <<>>
                         THEN image_extraction.extracted_images
                         ELSE session_images
    /\ pc' = "e_done"
    /\ UNCHANGED <<analysis_categories, analysis_table, imgVars, txt, pdf_bytes,
                   text_table, text_extraction>>

\* the script run of an extraction button is over; the session state stays
ExtractHandlerEnds ==
    /\ pc = "e_done"
    /\ pc' = "idle"
    /\ UNCHANGED <<analysis_categories, analysis_table, imgVars, txt, docVars>>

\* "Analyze Images (Batch)" (lines 791-804): the list kept in the session
\* state by "Extract Images" is handed to analyze_images_with_cortex
AnalyzeExtractedImages(b) ==
    /\ session_images # <<>>
    /\ Len(session_images) <= MaxUnits
    /\ AnalyzeImageFiles(session_images, b)

ExtractNext ==
    \/ \E doc \in Docs : UploadFile(doc)
    \/ \E db_ok \in BOOLEAN : ExtractText(db_ok)
    \/ ExtractImagesUnreadable
    \/ ExtractImagesStart
    \/ \E outcome \in ImageOutcomes : ExtractImage(outcome)
    \/ ExtractImagesReturn

ExtractSpec == Init /\ [][ExtractNext]_vars

(***************************************************************************)
(* The specification.                                                      *)
(***************************************************************************)
Next ==
    \/ \E new_cat_name \in NewNames, new_cat_desc \in NewDescs :
          AddCategory(new_cat_name, new_cat_desc)
    \/ ResetCategories
    \/ \E n \in 1..MaxUnits, b \in 1..MaxBatch : AnalyzeImages(n, b)
    \/ StartBatch
    \/ JoinBatch
    \/ CollectResult
    \/ NextBatch
    \/ ReturnResults
    \/ \E i \in 1..MaxUnits : StartCall(i)
    \/ \E i \in 1..MaxUnits : CallRaises(i)
    \/ \E i \in 1..MaxUnits, response \in ImageResponses : CallReturns(i, response)
    \/ \E i \in 1..MaxUnits, db_ok \in BOOLEAN : SaveResult(i, db_ok)
    \/ \E rows \in TextRows : AnalyzeText(rows)
    \/ \E response \in Responses : TextPrimaryReturns(response)
    \/ TextPrimaryRaises
    \/ \E response \in Responses : TextFallbackReturns(response)
    \/ TextFallbackRaises
    \/ \E db_ok \in BOOLEAN : TextParseSave(db_ok)

Spec == Init /\ [][Next]_vars

(***************************************************************************)
(* The specification with the scheduling of a run: as long as the script   *)
(* thread or a pool thread can take a step, or a completion statement is   *)
(* outstanding, some step of the run is eventually taken (threads are not  *)
(* starved for ever and every completion statement returns or raises).     *)
(***************************************************************************)
RunStep ==
    \/ StartBatch
    \/ JoinBatch
    \/ CollectResult
    \/ NextBatch
    \/ ReturnResults
    \/ \E i \in 1..MaxUnits : StartCall(i)
    \/ \E i \in 1..MaxUnits : CallRaises(i)
    \/ \E i \in 1..MaxUnits, response \in ImageResponses : CallReturns(i, response)
    \/ \E i \in 1..MaxUnits, db_ok \in BOOLEAN : SaveResult(i, db_ok)

FairSpec == Spec /\ WF_vars(RunStep)

(***************************************************************************)
(* The analysis of one unit (the text unit, or a run over one image) over  *)
(* a range of responses: JSON objects wrapped in prose, and texts that do  *)
(* not decode.  The schema is the default one or has custom categories.    *)
(***************************************************************************)
MaxProse == 1

\* what a model writes around its JSON: words, and braces of its own
ProseChunks == {"p", "{", "}"}

Prose == SeqsUpTo(ProseChunks, MaxProse)

\* well-formed JSON objects
Objects ==
    { <<"{", "}">>,
      <<"{", "for_sale_sign", "{", "yes90", "}", "}">>,
      <<"{", "for_sale_sign", "{", "yes90", "}", ",", "solar_panels", "{", "no0", "}", ",",
        "human_presence", "{", "no0", "}", ",", "potential_damage", "{", "yes90", "}", "}">>,
      <<"{", "pool", "{", "yes90", "}", ",", "potential_damage", "{", "no0", "}", "}">> }

Embedded == {pre \o J \o suf : pre \in Prose, J \in Objects, suf \in Prose}

\* texts without a brace, without a closing brace, with a malformed object
NonJson ==
    { <<>>, <<"p">>, <<"{">>, <<"p", "{", "p">>, <<"}", "p", "{">>,
      <<"{", "p", "}">>, <<"{", "for_sale_sign", "}">>,
      <<"{", "for_sale_sign", "{", "yes90", "}", ",", "}">> }

ParseResponses == Embedded \cup NonJson

\* names typed into the form: a new one, and one whose id is a default id
ParseNames == { <<"Pool">>, <<"For", " ", "Sale", "-", "Sign">> }

ParseNext ==
    \/ \E new_cat_name \in ParseNames, new_cat_desc \in NewDescs :
          AddCategory(new_cat_name, new_cat_desc)
    \/ ResetCategories
    \/ AnalyzeText(<< <<"page one">> >>)
    \/ \E response \in ParseResponses : TextPrimaryReturns(response)
    \/ \E db_ok \in BOOLEAN : TextParseSave(db_ok)
    \/ AnalyzeImages(1, 1)
    \/ StartBatch
    \/ JoinBatch
    \/ CollectResult
    \/ NextBatch
    \/ ReturnResults
    \/ StartCall(1)
    \/ CallRaises(1)
    \/ \E response \in ParseResponses : CallReturns(1, response)
    \/ \E db_ok \in BOOLEAN : SaveResult(1, db_ok)

ParseSpec == Init /\ [][ParseNext]_vars

(***************************************************************************)
(* The write of one finding over a range of mappings: canonical keys       *)
(* present or absent, custom keys, descriptions with quotes or a           *)
(* backslash.  The store accepts every statement that is well formed.      *)
(***************************************************************************)
SaveResponses ==
    { <<"p">>,
      <<"{", "for_sale_sign", "s", "}">>,
      <<"{", "for_sale_sign", "{", "yes90", "}", ",", "solar_panels", "{", "no0", "}", ",",
        "human_presence", "{", "no0", "}", ",", "potential_damage", "{", "yes90", "}", "}">>,
      <<"{", "pool", "{", "yes90", "}", ",", "potential_damage", "{", "no0", "}", "}">>,
      <<"{", "for_sale_sign", "{", "yes80q", "}", "}">>,
      <<"{", "potential_damage", "{", "yes70a", "}", ",", "pool", "{", "yes70a", "}", "}">>,
      <<"{", "potential_damage", "{", "yes60b", "}", "}">>,
      <<"{", "pool", "{", "yes60b", "}", "}">> }

SaveNext ==
    \/ \E new_cat_desc \in NewDescs : AddCategory(<<"Pool">>, new_cat_desc)
    \/ ResetCategories
    \/ AnalyzeText(<< <<"page one">> >>)
    \/ \E response \in SaveResponses : TextPrimaryReturns(response)
    \/ TextParseSave(TRUE)
    \/ AnalyzeImages(1, 1)
    \/ StartBatch
    \/ JoinBatch
    \/ CollectResult
    \/ NextBatch
    \/ ReturnResults
    \/ StartCall(1)
    \/ CallRaises(1)
    \/ \E response \in SaveResponses : CallReturns(1, response)
    \/ SaveResult(1, TRUE)

SaveSpec == Init /\ [][SaveNext]_vars

(***************************************************************************)
(* Analyses repeated on the same document: when a handler has returned the *)
(* script waits for the next button, the locals of the handler are gone,   *)
(* the schema and the result table stay.                                   *)
(***************************************************************************)
MaxRows == 2

ScriptEnds ==
    /\ pc \in {"done", "t_done"}
    /\ Len(analysis_table) < MaxRows
    /\ pc' = "idle"
    /\ image_files' = <<>>
    /\ batch_size' = 1
    /\ batch_start' = 0
    /\ unit' = <<>>
    /\ batch_results' = <<>>
    /\ all_results' = <<>>
    /\ completed' = 0
    /\ progress' = <<>>
    /\ warnings' = <<>>
    /\ groups' = 0
    /\ prompt_escaped' = <<>>
    /\ txt' = NoText
    /\ UNCHANGED <<analysis_categories, analysis_table, docVars>>

StoreResponses ==
    { <<"p">>,
      <<"{", "for_sale_sign", "{", "yes90", "}", ",", "solar_panels", "{", "no0", "}", ",",
        "human_presence", "{", "no0", "}", ",", "potential_damage", "{", "yes90", "}", "}">> }

StoreNext ==
    \/ AnalyzeText(<< <<"page one">> >>)
    \/ \E response \in StoreResponses : TextPrimaryReturns(response)
    \/ \E db_ok \in BOOLEAN : TextParseSave(db_ok)
    \/ AnalyzeImages(1, 1)
    \/ StartBatch
    \/ JoinBatch
    \/ CollectResult
    \/ NextBatch
    \/ ReturnResults
    \/ StartCall(1)
    \/ CallRaises(1)
    \/ \E response \in StoreResponses : CallReturns(1, response)
    \/ \E db_ok \in BOOLEAN : SaveResult(1, db_ok)
    \/ ScriptEnds

StoreSpec == Init /\ [][StoreNext]_vars

(***************************************************************************)
(* The sidebar form alone: sequences of "Add Category" and "Reset to       *)
(* Defaults" on schemas of up to MaxSchema entries.                        *)
(***************************************************************************)
MaxSchema == 7

\* names typed into the form: a new one, one whose id is that of a default
\* category, one whose id is that of the first
SchemaNames == { <<>>, <<"Pool">>, <<"For", " ", "Sale", "-", "Sign">>, <<"pool">> }

SchemaDescs == { <<>>, <<"Is there a pool?">>, <<"it", "'", "s ", "\\", "a">> }

SchemaNext ==
    \/ \E new_cat_name \in SchemaNames, new_cat_desc \in SchemaDescs :
          AddCategoryWithin(MaxSchema, new_cat_name, new_cat_desc)
    \/ ResetCategories

SchemaSpec == Init /\ [][SchemaNext]_vars

(***************************************************************************)
(* From the document to the stored findings: the images of an uploaded     *)
(* document are extracted, then analysed.                                  *)
(***************************************************************************)
\* readable documents with up to MaxImages images on each page
ImageDocs ==
    {[uploaded |-> TRUE, readable |-> TRUE, pages |-> ps] :
        ps \in SeqsUpTo(ImagePages, MaxPages)}

PipelineResponses ==
    { <<"{", "for_sale_sign", "{", "yes90", "}", ",", "solar_panels", "{", "no0", "}", ",",
        "human_presence", "{", "no0", "}", ",", "potential_damage", "{", "yes90", "}", "}">> }

PipelineNext ==
    \/ \E doc \in ImageDocs : UploadFile(doc)
    \/ ExtractImagesStart
    \/ ExtractImage("uploaded")
    \/ ExtractImagesReturn
    \/ ExtractHandlerEnds
    \/ AnalyzeExtractedImages(MaxBatch)
    \/ StartBatch
    \/ JoinBatch
    \/ CollectResult
    \/ NextBatch
    \/ ReturnResults
    \/ \E i \in 1..MaxUnits : StartCall(i)
    \/ \E i \in 1..MaxUnits : CallRaises(i)
    \/ \E i \in 1..MaxUnits, response \in PipelineResponses : CallReturns(i, response)
    \/ \E i \in 1..MaxUnits : SaveResult(i, TRUE)

PipelineSpec == Init /\ [][PipelineNext]_vars

(***************************************************************************)
(* Properties.                                                             *)
(***************************************************************************)
Units == 1..total_images

CeilDiv(n, b) == (n + b - 1) \div b

InFlight == {i \in Units : unit[i].st = "calling"}

Members(g) == {i \in Units : unit[i].group = g}

Succeeded == {all_results[k].img_idx : k \in 1..Len(all_results)}

Failed == {warnings[k] : k \in 1..Len(warnings)}

RowsOf(i) == {k \in 1..Len(analysis_table) : analysis_table[k].IMAGE_NAME = image_files[i]}

\* C1: the N units are processed in exactly ceil(N/B) consecutive groups of at
\* most B units each, and never more than B completion calls are in flight.
C1_GroupsAndInFlight ==
    /\ Cardinality(InFlight) <= batch_size
    /\ \A g \in 1..groups :
          Members(g) = ((g - 1) * batch_size + 1) .. Min(g * batch_size, total_images)
    /\ pc = "done" =>
          /\ groups = CeilDiv(total_images, batch_size)
          /\ \A i \in Units : unit[i].group \in 1..groups

C1_Witness ==
    /\ pc = "done"
    /\ total_images = 3 /\ batch_size = 2 /\ groups = 2
    /\ Members(1) = {1, 2} /\ Members(2) = {3}

\* C2: no completion call of a later group starts before every call of every
\* earlier group has finished, by returning or by raising.
C2_GroupsSequential ==
    \A i, j \in Units :
        (unit[i].group > 0 /\ unit[i].group < unit[j].group /\ unit[j].attempts > 0)
            => unit[i].st = "done"

C2_Witness ==
    /\ batch_size = 2 /\ total_images = 3
    /\ unit[1].outcome = "raised" /\ unit[2].outcome = "returned"
    /\ unit[3].group = 2 /\ unit[3].st = "calling"

\* C3: when exactly one completion call of a group of at least two units
\* raises, every sibling call and every later group still runs, the group
\* yields one finding per sibling and exactly one failure is recorded for it.
C3_SingleFailureIsolated ==
    pc = "done" =>
        \A g \in 1..groups :
            (Cardinality(Members(g)) >= 2
                /\ Cardinality({i \in Members(g) : unit[i].outcome = "raised"}) = 1)
            => /\ \A i \in Units : unit[i].group >= g =>
                      unit[i].attempts = 1 /\ unit[i].st = "done"
               /\ Cardinality({k \in 1..Len(all_results) :
                                  all_results[k].img_idx \in Members(g)})
                      = Cardinality(Members(g)) - 1
               /\ Cardinality({k \in 1..Len(warnings) : warnings[k] \in Members(g)}) = 1

C3_Witness ==
    /\ pc = "done"
    /\ total_images = 3 /\ batch_size = 2
    /\ unit[1].outcome = "raised" /\ unit[2].outcome = "returned"
    /\ unit[3].outcome = "returned"
    /\ Succeeded = {2, 3} /\ Failed = {1}

\* C4: a started run eventually returns, and then every unit of every group
\* is resolved as succeeded or failed.
C4_RunTerminates ==
    (pc = "loop") ~>
        (pc = "done" /\ \A i \in Units :
                            unit[i].st = "done" /\ i \in Succeeded \cup Failed)

C4_Witness ==
    /\ pc = "done"
    /\ total_images = 3 /\ batch_size = 1 /\ groups = 3
    /\ \A i \in Units : unit[i].st = "done"

\* C5: at the return, findings plus reported failures equal N, every unit is
\* counted exactly once, and the completed counter equals N.
C5_EveryUnitCountedOnce ==
    pc = "done" =>
        /\ Len(all_results) + Len(warnings) = total_images
        /\ completed = total_images
        /\ \A i \in Units :
              Cardinality({k \in 1..Len(all_results) : all_results[k].img_idx = i})
                + Cardinality({k \in 1..Len(warnings) : warnings[k] = i}) = 1

C5_Witness ==
    /\ pc = "done"
    /\ total_images = 3
    /\ Len(all_results) = 1 /\ Len(warnings) = 2 /\ completed = 3

\* C6: progress is emitted once per completed unit as completed/total, and the
\* emitted values are 1/N, 2/N, ..., N/N in this order.
C6_ProgressCountsUp ==
    /\ Len(progress) = completed
    /\ \A k \in 1..Len(progress) : progress[k] = <<k, total_images>>
    /\ Len(progress) <= Cardinality({i \in Units : unit[i].st = "done"})
    /\ pc = "done" => Len(progress) = total_images

C6_Witness ==
    /\ pc = "done"
    /\ progress = << <<1, 3>>, <<2, 3>>, <<3, 3>> >>

\* C7: under every interleaving of the workers, a unit whose completion call
\* and result write both succeeded has exactly one row in the result store,
\* carrying its own name, index, response and mapping; no other unit has a row.
C7_OneRowPerSavedUnit ==
    /\ \A i \in Units : unit[i].st = "done" =>
          IF unit[i].saved
          THEN /\ Cardinality(RowsOf(i)) = 1
               /\ \A k \in RowsOf(i) :
                     /\ analysis_table[k].PAGE_NUMBER = i
                     /\ analysis_table[k].METADATA = unit[i].analysis_json
                     /\ analysis_table[k].FULL_ANALYSIS_TEXT = Prefix(unit[i].response, FullTextLen)
          ELSE RowsOf(i) = {}
    /\ pc = "done" => Len(analysis_table) = Cardinality({i \in Units : unit[i].saved})

C7_Witness ==
    /\ pc = "done"
    /\ total_images = 3 /\ batch_size = 2
    /\ unit[1].saved /\ unit[2].saved /\ ~ unit[3].saved
    /\ analysis_table[1].IMAGE_NAME = image_files[2]
    /\ analysis_table[2].IMAGE_NAME = image_files[1]

\* C8: a unit whose completion call succeeded and whose write to the result
\* store failed is still among the returned findings and is not reported as
\* a failure.
C8_FindingKeptWhenWriteFails ==
    pc = "done" =>
        \A i \in Units :
            (unit[i].outcome = "returned" /\ ~ unit[i].saved)
            => /\ \E k \in 1..Len(all_results) :
                     /\ all_results[k].img_idx = i
                     /\ all_results[k].analysis_json = unit[i].analysis_json
               /\ i \notin Failed

C8_Witness ==
    /\ pc = "done"
    /\ \E i \in Units : unit[i].outcome = "returned" /\ ~ unit[i].saved /\ RowsOf(i) = {}
    /\ \E i \in Units : unit[i].saved

\* C9: every completion call that fails on its primary path, for the text unit
\* and for an image unit alike, is retried exactly once through the alternate
\* path with the same prompt, and a failure is surfaced only after both failed.
C9_FailureOnlyAfterFallback ==
    /\ \A i \in Units : unit[i].error => unit[i].attempts = 2
    /\ (txt.returned = "None" /\ txt.calls # <<>>) => Len(txt.calls) = 2
    /\ Len(txt.calls) = 2 =>
          /\ txt.calls[1].path = "primary" /\ txt.calls[2].path = "fallback"
          /\ txt.calls[2].prompt = txt.calls[1].prompt

\* C10: every finding returned and every finding persisted has an entry for
\* every category id of the schema the analysis ran with.
C10_EveryCategoryPresent ==
    LET ids == {analysis_categories[c].id : c \in 1..Len(analysis_categories)}
    IN  /\ \A k \in 1..Len(all_results) : ids \subseteq DOMAIN all_results[k].analysis_json
        /\ \A k \in 1..Len(analysis_table) : ids \subseteq DOMAIN analysis_table[k].METADATA
        /\ txt.returned = "json" => ids \subseteq DOMAIN txt.analysis_json

\* the responses parsed so far, each with the mapping its parse block ended with
Parsed ==
    {[response |-> unit[i].response, analysis_json |-> unit[i].analysis_json] :
        i \in {j \in Units : unit[j].outcome = "returned" /\ ~ unit[j].error}}
    \cup (IF txt.returned = "json"
          THEN {[response |-> txt.response, analysis_json |-> txt.analysis_json]}
          ELSE {})

CategoryIds == {analysis_categories[c].id : c \in 1..Len(analysis_categories)}

\* the text between the first opening and the last closing brace
Braced(response) ==
    Slice(response, SetMin(Positions(response, "{")) - 1, SetMax(Positions(response, "}")))

\* no brace at all, an opening brace without a closing one, or a malformed object
Undecodable(response) ==
    \/ Positions(response, "{") = {}
    \/ Positions(response, "}") = {}
    \/ ~ json_loads(Braced(response)).ok

BraceFree(s) == \A k \in 1..Len(s) : s[k] \notin {"{", "}"}

\* C11: for a response that is not decodable as JSON, the parsed mapping holds
\* every category id of the schema with detected = false and confidence = 0.
C11_DefaultsOnUndecodable ==
    \A p \in Parsed : Undecodable(p.response) =>
        \A id \in CategoryIds :
            /\ id \in DOMAIN p.analysis_json
            /\ p.analysis_json[id].detected = FALSE
            /\ p.analysis_json[id].confidence = 0

C11_Witness ==
    /\ Len(analysis_categories) = 5
    /\ "pool" \in CategoryIds
    /\ txt.returned = "json"
    /\ txt.response = <<"p", "{", "p">>
    /\ DOMAIN txt.analysis_json = CategoryIds
    /\ \A id \in CategoryIds : ~ txt.analysis_json[id].detected

\* the canonical entries of the mapping m are those of the JSON object J
SameCanonical(m, J) ==
    \A k \in CanonicalKeys :
        /\ k \in DOMAIN m <=> k \in DOMAIN json_loads(J).obj
        /\ k \in DOMAIN m => m[k] = json_loads(J).obj[k]

\* C12 (as stated): parsing prefix + J + suffix, for a well-formed object J and
\* any prose around it, gives the values of J for the four canonical keys.
C12_RoundTripAnyProse ==
    \A p \in Parsed : \A J \in Objects, pre \in Prose, suf \in Prose :
        p.response = pre \o J \o suf => SameCanonical(p.analysis_json, J)

\* C12 (amended): parsing prefix + J + suffix, for a well-formed object J and
\* prose that holds no brace, gives the values of J for the four canonical keys.
C12_RoundTripBraceFreeProse ==
    \A p \in Parsed : \A J \in Objects, pre \in Prose, suf \in Prose :
        (p.response = pre \o J \o suf /\ BraceFree(pre) /\ BraceFree(suf))
            => SameCanonical(p.analysis_json, J)

C12_Witness ==
    /\ unit # <<>>
    /\ unit[1].st = "done" /\ unit[1].saved
    /\ unit[1].response =
          <<"p", "{", "for_sale_sign", "{", "yes90", "}", ",", "solar_panels", "{", "no0", "}", ",",
            "human_presence", "{", "no0", "}", ",", "potential_damage", "{", "yes90", "}", "}", "p">>
    /\ unit[1].analysis_json["for_sale_sign"] = ValueOf("yes90")
    /\ unit[1].analysis_json["solar_panels"] = ValueOf("no0")
    /\ unit[1].analysis_json["potential_damage"].detected

\* C13: whatever the completion call yields (the empty response included), the
\* parse block ends with a mapping: an image unit whose call returned is not
\* given an error, and the text analysis returns its mapping.
C13_ParsingNeverRaises ==
    /\ \A i \in Units :
          (unit[i].outcome = "returned" /\ unit[i].st \in {"responded", "done"})
            => /\ unit[i].error = FALSE
               /\ unit[i].analysis_json = parse_response(unit[i].response, analysis_categories)
    /\ (pc = "t_done" /\ txt.answered) => txt.returned = "json"
    /\ pc = "done" =>
          \A i \in Units : unit[i].outcome = "returned" => i \in Succeeded

C13_Witness ==
    /\ pc = "done"
    /\ unit[1].outcome = "returned" /\ unit[1].response = <<>>
    /\ 1 \in Succeeded
    /\ txt = NoText

\* C14: on every decode failure the first category of the schema gets the
\* first 200 characters of the raw response as its description and every
\* other category gets the empty description.
C14_FirstCategoryCarriesResponse ==
    \A p \in Parsed : Undecodable(p.response) =>
        \A c \in 1..Len(analysis_categories) :
            /\ analysis_categories[c].id \in DOMAIN p.analysis_json
            /\ p.analysis_json[analysis_categories[c].id].description
                 = IF c = 1 THEN Prefix(p.response, DescPrefixLen) ELSE <<>>

\* every value of the mapping is an object with detected, confidence, description
Typed(m) == \A k \in DOMAIN m : m[k].dict

\* the row's canonical fields are those of the mapping m (detected = false and
\* confidence = 0 for an absent key) and its metadata is m
RowMirrors(row, m) ==
    /\ row.FOR_SALE_SIGN_DETECTED = DictGet(m, "for_sale_sign").detected
    /\ row.FOR_SALE_SIGN_CONFIDENCE = DictGet(m, "for_sale_sign").confidence
    /\ row.SOLAR_PANEL_DETECTED = DictGet(m, "solar_panels").detected
    /\ row.SOLAR_PANEL_CONFIDENCE = DictGet(m, "solar_panels").confidence
    /\ row.HUMAN_PRESENCE_DETECTED = DictGet(m, "human_presence").detected
    /\ row.HUMAN_PRESENCE_CONFIDENCE = DictGet(m, "human_presence").confidence
    /\ row.POTENTIAL_DAMAGE_DETECTED = DictGet(m, "potential_damage").detected
    /\ row.POTENTIAL_DAMAGE_CONFIDENCE = DictGet(m, "potential_damage").confidence
    /\ \A k \in CanonicalKeys \ DOMAIN m :
          ~ DictGet(m, k).detected /\ DictGet(m, k).confidence = 0
    /\ row.METADATA = m

\* C15: for every per_category mapping passed to save_analysis_results one row
\* is written whose canonical detected/confidence fields are the mapping's
\* (false and 0 for an absent canonical key) and whose metadata is the
\* complete mapping, unchanged.
C15_RowMirrorsMapping ==
    /\ \A i \in Units :
          (unit[i].st = "done" /\ unit[i].outcome = "returned" /\ Typed(unit[i].analysis_json))
            => /\ Cardinality(RowsOf(i)) = 1
               /\ \A k \in RowsOf(i) : RowMirrors(analysis_table[k], unit[i].analysis_json)
    /\ (pc = "t_done" /\ txt.returned = "json" /\ Typed(txt.analysis_json))
            => /\ Len(analysis_table) = 1
               /\ RowMirrors(analysis_table[1], txt.analysis_json)

\* C16: the result store is append-only: a step leaves every row written
\* earlier in place and unchanged, and a write (a re-analysis of the same
\* document, unit and model included) adds exactly one new row.
C16_AppendOnly ==
    [][/\ Len(analysis_table') >= Len(analysis_table)
       /\ SubSeq(analysis_table', 1, Len(analysis_table)) = analysis_table
       /\ analysis_table' # analysis_table => Len(analysis_table') = Len(analysis_table) + 1]_vars

C16_Witness ==
    /\ Len(analysis_table) = 2
    /\ analysis_table[1].FILE_NAME = analysis_table[2].FILE_NAME
    /\ analysis_table[1].IMAGE_NAME = analysis_table[2].IMAGE_NAME
    /\ analysis_table[1].IMAGE_NAME = ImageName(1)
    /\ analysis_table[1].MODEL_NAME = analysis_table[2].MODEL_NAME
    /\ analysis_table[1].METADATA # analysis_table[2].METADATA

\* the page of every image object of the document, in document order
ImageObjects == image_pages(pdf_bytes.pages, 1)

\* the position of the n-th image object among the image objects of its page
SequenceInPage(n) == n - Cardinality({j \in 1..Len(ImageObjects) : ImageObjects[j] < ImageObjects[n]})

\* C17: for a document with P pages and T embedded images the extraction
\* returns exactly T image records, each tagged with its page number in 1..P
\* and with a sequence number that restarts at 1 on every page.
C17_ImagesNumberedPerPage ==
    (image_extraction.result.returned /\ pdf_bytes.readable
        /\ image_extraction.reported = <<>>)
    => /\ Len(image_extraction.result.value) = Len(ImageObjects)
       /\ Len(image_extraction.image_filenames) = Len(ImageObjects)
       /\ \A n \in 1..Len(ImageObjects) :
             /\ image_extraction.image_filenames[n].page_num = ImageObjects[n]
             /\ image_extraction.image_filenames[n].page_num \in 1..Len(pdf_bytes.pages)
             /\ image_extraction.image_filenames[n].image_counter = SequenceInPage(n)

\* C18: for a document with P pages, extracting the text and saving it gives
\* exactly P page-text rows, numbered 1..P in order, each with the text of
\* its page (the empty text included).
C18_OneRowPerPage ==
    (text_extraction.called /\ text_extraction.db_ok /\ pdf_bytes.readable)
    => /\ Len(text_table) = Len(pdf_bytes.pages)
       /\ \A n \in 1..Len(text_table) :
             /\ text_table[n].PAGE_NUMBER = n
             /\ text_table[n].EXTRACTED_TEXT = pdf_bytes.pages[n].text

\* C19: an image whose decoding or storing fails is reported and skipped;
\* every other image of the same page and of the later pages is still
\* visited, and the uploaded ones are returned in order.
C19_FailedImageSkipped ==
    (image_extraction.result.returned /\ pdf_bytes.readable)
    => LET T == Len(ImageObjects)
           reported == image_extraction.reported
           skipped == {reported[k].image_counter : k \in 1..Len(reported)}
       IN  /\ image_extraction.image_counter = T
           /\ Len(image_extraction.result.value) + Len(reported) = T
           /\ image_extraction.result.value
                = Pick([n \in 1..T |-> TmpName(n)], (1..T) \ skipped)
           /\ \A k \in 1..Len(reported) :
                 reported[k].page_num = ImageObjects[reported[k].image_counter]
           /\ image_extraction.result.value # <<>>
                 => session_images = image_extraction.result.value

C19_Witness ==
    /\ pc = "e_done"
    /\ Len(pdf_bytes.pages) = 2
    /\ pdf_bytes.pages[1].images = 2 /\ pdf_bytes.pages[2].images = 1
    /\ image_extraction.reported =
          << [image_counter |-> 1, page_num |-> 1, message |-> "Could not extract image"] >>
    /\ image_extraction.result.value = <<TmpName(2), TmpName(3)>>
    /\ session_images = <<TmpName(2), TmpName(3)>>

\* C20: when the document cannot be parsed at all, each extraction call
\* hands the failure to its caller: the outcome differs from that of a
\* readable document without text or without images.
C20_UnreadableToldApart ==
    (pdf_bytes.uploaded /\ ~ pdf_bytes.readable)
    => /\ text_extraction.called
            => /\ Head(text_extraction.text) = "Error"
               /\ text_extraction.shown = "Failed to extract text"
       /\ image_extraction.result.returned
            => \/ image_extraction.result.raised
               \/ image_extraction.result.value # <<>>

\* C21: every extracted image is stored and returned under the generated
\* name {document_stem}_page{N}_img{M}.{ext} built from its document, page
\* and sequence, so the names of the images of one document are pairwise
\* distinct.
C21_StoredUnderGeneratedName ==
    (image_extraction.result.returned /\ pdf_bytes.readable)
    => LET value == image_extraction.result.value
           built == image_extraction.image_filenames
       IN  /\ Len(value) = Len(built)
           /\ \A k \in 1..Len(value) :
                 value[k] = image_filename(built[k].page_num, built[k].image_counter)
           /\ \A j, k \in 1..Len(value) : j # k => value[j] # value[k]

\* the ids of the schema, in order
SchemaIds == [k \in 1..Len(analysis_categories) |-> analysis_categories[k].id]

\* C22: after any sequence of add and reset operations on the category
\* schema, each add keeps all existing categories in place and appends
\* exactly one, and each reset leaves exactly the four default categories
\* (for_sale_sign, solar_panels, human_presence, potential_damage),
\* unaffected by any earlier add.
C22_AddAppendsResetRestores ==
    [][ /\ (\E new_cat_name \in SchemaNames, new_cat_desc \in SchemaDescs :
                AddCategoryWithin(MaxSchema, new_cat_name, new_cat_desc))
           => /\ Len(analysis_categories') = Len(analysis_categories) + 1
              /\ SubSeq(analysis_categories', 1, Len(analysis_categories))
                    = analysis_categories
        /\ ResetCategories
           => /\ analysis_categories' = DEFAULT_CATEGORIES
              /\ SchemaIds' = <<"for_sale_sign", "solar_panels",
                                "human_presence", "potential_damage">>
        /\ analysis_categories' # analysis_categories
           => \/ Len(analysis_categories') = Len(analysis_categories) + 1
              \/ Len(analysis_categories') = 4 ]_vars

\* two adds after the defaults, the second with the id of the first
C22_Witness ==
    /\ Len(analysis_categories) = 6
    /\ SubSeq(analysis_categories, 1, 4) = DEFAULT_CATEGORIES
    /\ analysis_categories[5].name = <<"Pool">>
    /\ analysis_categories[6].name = <<"pool">>

\* C23: adding a category whose id, derived from its name, equals the id of
\* an existing category overwrites that category (last write wins), so
\* after any sequence of add and reset no two categories of the schema share
\* an id.
C23_IdsUnique ==
    \A j, k \in 1..Len(analysis_categories) :
        j # k => analysis_categories[j].id # analysis_categories[k].id

\* the page the i-th image of the analysed list was extracted from
OriginPage(i) == image_extraction.image_filenames[i].page_num

\* C24: the page_number persisted with the finding of an image unit is the
\* number of the page the image was extracted from.
C24_PageNumberIsOriginPage ==
    (image_files # <<>> /\ image_files = image_extraction.result.value)
    => \A k \in 1..Len(analysis_table), i \in 1..Len(image_files) :
           analysis_table[k].IMAGE_NAME = image_files[i]
           => analysis_table[k].PAGE_NUMBER = OriginPage(i)

\* the units whose call returned a finding
Returned == {i \in Units : unit[i].st = "done" /\ ~ unit[i].error}

\* C25: the findings returned by analyze_images_with_cortex are in the order
\* of the input units (ascending input index), whatever order the concurrent
\* calls of a group complete in; failed units are simply omitted.
C25_ResultsInInputOrder ==
    /\ \A j, k \in 1..Len(all_results) :
          j < k => all_results[j].img_idx < all_results[k].img_idx
    /\ pc = "done" =>
          /\ Len(all_results) = Cardinality(Returned)
          /\ [k \in 1..Len(all_results) |-> all_results[k].img_idx]
                = Pick([i \in 1..total_images |-> i], Returned)
          /\ \A k \in 1..Len(all_results) :
                /\ all_results[k].image_name = image_files[all_results[k].img_idx]
                /\ all_results[k].analysis_json
                      = unit[all_results[k].img_idx].analysis_json

\* the calls of the first group wrote their rows in the order 2, 1; unit 3 failed
C25_Witness ==
    /\ pc = "done"
    /\ total_images = 3 /\ batch_size = 2
    /\ Len(analysis_table) = 2
    /\ analysis_table[1].IMAGE_NAME = image_files[2]
    /\ analysis_table[2].IMAGE_NAME = image_files[1]
    /\ unit[3].error
    /\ [k \in 1..Len(all_results) |-> all_results[k].img_idx] = <<1, 2>>

====
